---- MODULE Spec2Model ----
(***************************************************************************)
(* indexed::set -- an AVL tree whose nodes live in one growable byte       *)
(* buffer and are linked by signed byte distances relative to the node     *)
(* that owns the link.  Node pointers are absolute addresses               *)
(* (buffer head + offset); nullptr is 0.                                   *)
(***************************************************************************)
EXTENDS Integers, Sequences, FiniteSets, TLC

\* ------------------------------------------------------------------ bounds
MaxKey == 4          \* keys are 1..MaxKey (uint2::x)
MaxTag == 1          \* uint2::y ranges over 0..MaxTag
MaxReserve == 2      \* reserve(count) is called with count in 0..MaxReserve
MaxKeyRT == 3        \* keys used when one erase is followed to the re-insert
PayloadWords == 124  \* sizeof(Tu) / 4 of the stored type
MaxFail == 2         \* the malloc that fails is the 1st .. MaxFail-th of a call
MaxKeyAsc == 7       \* keys of the insert-only runs (the driver's ASC insertion)

\* ------------------------------------------------------- program constants
MIN_GROW_BY == 1024
Ta == 16
Left == 1
None == 2
Right == 3
LeftLeft == 5
LeftRight == 7
RightLeft == 13
RightRight == 15

nullptr == 0

\* sizeof(inode<Tu>): payload, three 32-bit links, tilt, tag8, tag16
Nsize == 4 * PayloadWords + 16

\* heap addresses malloc can hand out (far enough apart for any buffer)
Bases == {1048576, 2097152}

Keys == 1..MaxKey
\* keys that slots are recorded for
SlotKeys == 1..(IF MaxKeyAsc > MaxKey THEN MaxKeyAsc ELSE MaxKey)
Values == [x : Keys, y : 0..MaxTag]
ZeroPayload == [x |-> 0, y |-> 0]
ZeroNode == [payload |-> ZeroPayload, parent |-> 0, left |-> 0, right |-> 0, tilt |-> 0]

\* uint2::operator< , used through std::less<uint2>
Less(a, b) == a.x < b.x

\* ------------------------------------------------------------- Dir helpers
\* operator~(Dir)
Opp(d) == IF d = Left THEN Right ELSE Left
\* operator!(Dir)
NotDir(d) == d = None
\* operator|(Dir, Dir)
Dir2Of(a, b) == a * 4 + b

\* -------------------------------------------------------------- _Growable
Max2(a, b) == IF a >= b THEN a ELSE b
\* (every quantity of the model stays far below 2^31, so the 32-bit
\* wrap-around of u32 and off arithmetic never occurs and is not written)
Aligned(n) == ((n + (Ta - 1)) \div Ta) * Ta

\* addresses of the node records inside the used part of c's buffer
NodeAddrs(c) == {c.ptr_ + k * Nsize : k \in 0..((c.len_ \div Nsize) - 1)}

\* malloc: any block other than the one that is still allocated
Malloc(live, pick) == IF pick # live THEN pick ELSE CHOOSE b \in Bases : b # live

\* malloc returns null: the call of the container that asks for its
\* c.fail-th block gets none (c.fail = 0: every malloc succeeds)
MallocFails(c) == c.fail # 0 /\ c.reallocs + 1 = c.fail

\* as _GrowBy, but the old block is released before the new one is asked for
GrowByFreeFirst(c, bytesToAdd, pick) ==
    IF (c.capacity_ - c.len_) < bytesToAdd
    THEN IF MallocFails(c)
         THEN [c EXCEPT !.oom = TRUE, !.ptr_ = nullptr, !.n = << >>]
         ELSE LET nb == Malloc(c.ptr_, pick)
                  _NewCap == Aligned(Max2(Max2(bytesToAdd - (c.capacity_ - c.len_), MIN_GROW_BY),
                                          c.capacity_ \div 2) + c.capacity_)
                  moved == [a \in {nb + (b - c.ptr_) : b \in NodeAddrs(c)} |-> c.n[a - nb + c.ptr_]]
              IN [c EXCEPT !.n = moved, !.ptr_ = nb, !.capacity_ = _NewCap,
                           !.reallocs = c.reallocs + 1]
    ELSE c

\* malloc of a new block, memcpy of len_ bytes, zero fill, free of the old
\* block; returns the container (the C++ result is ptr_ + len_).
\* if (!_Moved) throw std::bad_alloc(): the container is returned as it was,
\* marked oom, and every caller passes it on without doing anything more
_GrowBy(c, bytesToAdd, pick) ==
    IF (c.capacity_ - c.len_) < bytesToAdd
    THEN IF MallocFails(c)
         THEN [c EXCEPT !.oom = TRUE]
         ELSE LET nb == Malloc(c.ptr_, pick)
                  _NewCap == Aligned(Max2(Max2(bytesToAdd - (c.capacity_ - c.len_), MIN_GROW_BY),
                                          c.capacity_ \div 2) + c.capacity_)
                  moved == [a \in {nb + (b - c.ptr_) : b \in NodeAddrs(c)} |-> c.n[a - nb + c.ptr_]]
              IN [c EXCEPT !.n = moved, !.ptr_ = nb, !.capacity_ = _NewCap,
                           !.reallocs = c.reallocs + 1]
    ELSE c

\* returns the container with one more zeroed record; the record's address
\* is (result.ptr_ + result.len_ - cnt)
_PtrAppendZeroBytes(c, cnt, pick) ==
    LET Zeroed(g) ==
            IF g.oom THEN g
            ELSE [g EXCEPT !.n = [a \in DOMAIN g.n \cup {g.ptr_ + g.len_} |->
                                     IF a = g.ptr_ + g.len_ THEN ZeroNode ELSE g.n[a]],
                           !.len_ = g.len_ + cnt]
    IN Zeroed(_GrowBy(c, cnt, pick))

_Reserve(c, totalBytes, pick) ==
    IF totalBytes > c.capacity_ THEN _GrowBy(c, totalBytes - c.len_, pick) ELSE c

\* ------------------------------------------------------------------- inode
\* A function body is written as its statements, each an operator from the
\* heap before it to the heap after it, applied in the order of the code.
Set(h, p, f, v) == [h EXCEPT !.n[p][f] = v]

IsEmpty(h, p) == h.n[p].tilt = 0
_Ptr(p, o) == p + o
_Off(a, b) == b - a
Nleft(h, p) == _Ptr(p, h.n[p].left)
Nright(h, p) == _Ptr(p, h.n[p].right)
Nparent(h, p) == _Ptr(p, h.n[p].parent)
NSafeParent(h, p) == IF h.n[p].parent # 0 THEN _Ptr(p, h.n[p].parent) ELSE nullptr
NSafeLeft(h, p) == IF h.n[p].left # 0 THEN _Ptr(p, h.n[p].left) ELSE nullptr
NSafeRight(h, p) == IF h.n[p].right # 0 THEN _Ptr(p, h.n[p].right) ELSE nullptr

Branch(h, p) ==
    IF h.n[p].parent # 0
    THEN (IF h.n[Nparent(h, p)].left = -(h.n[p].parent) THEN Left ELSE Right)
    ELSE None

RECURSIVE Root(_, _)
Root(h, p) == IF h.n[p].parent # 0 THEN Root(h, Nparent(h, p)) ELSE p

Nheavy(h, p) == IF h.n[p].tilt = Left THEN _Ptr(p, h.n[p].left) ELSE _Ptr(p, h.n[p].right)

\* the link of P that designates Z: (P->left == -(Z->parent)) ? P->left : P->right
LinkTo(h, P, Z) == IF h.n[P].left = -(h.n[Z].parent) THEN "left" ELSE "right"

\* as _Rotate_LL, but no link is changed
RotateLLNothing(h, Z, Y, X) == h

\* ---------------------------------------------------------------- rotations
_Rotate_LL(h, Z, Y, X) ==
    LET P == NSafeParent(h, Z)
        Relink(a) == Set(a, P, LinkTo(a, P, Z), a.n[P][LinkTo(a, P, Z)] + a.n[Z].left)
        Up(a) == IF P # nullptr
                 THEN Relink(Set(a, Y, "parent", a.n[Y].parent + a.n[Z].parent))
                 ELSE Set(a, Y, "parent", 0)
        Zp(a) == Set(a, Z, "parent", a.n[Z].left)
        Back(a) == Set(a, Nleft(a, Z), "parent", -(a.n[Z].left))
        Inner(a) == IF a.n[Y].right # 0
                    THEN Back(Set(a, Z, "left", a.n[Z].left + a.n[Y].right))
                    ELSE Set(a, Z, "left", 0)
        Yc(a) == Set(a, Y, "right", -(a.n[Z].parent))
    IN Yc(Inner(Zp(Up(h))))

\* as _Rotate_RR, but no link is changed
RotateRRNothing(h, Z, Y, X) == h

_Rotate_RR(h, Z, Y, X) ==
    LET P == NSafeParent(h, Z)
        Relink(a) == Set(a, P, LinkTo(a, P, Z), a.n[P][LinkTo(a, P, Z)] + a.n[Z].right)
        Up(a) == IF P # nullptr
                 THEN Relink(Set(a, Y, "parent", a.n[Y].parent + a.n[Z].parent))
                 ELSE Set(a, Y, "parent", 0)
        Zp(a) == Set(a, Z, "parent", a.n[Z].right)
        Back(a) == Set(a, Nright(a, Z), "parent", -(a.n[Z].right))
        Inner(a) == IF a.n[Y].left # 0
                    THEN Back(Set(a, Z, "right", a.n[Z].right + a.n[Y].left))
                    ELSE Set(a, Z, "right", 0)
        Yc(a) == Set(a, Y, "left", -(a.n[Z].parent))
    IN Yc(Inner(Zp(Up(h))))

_Rotate_LR(h, Z, Y, X) ==
    LET P == NSafeParent(h, Z)
        Xp(a) == Set(a, X, "parent", _Off(X, P))
        Up(a) == IF P # nullptr
                 THEN Xp(Set(a, P, LinkTo(a, P, Z), _Off(P, X)))
                 ELSE Set(a, X, "parent", 0)
        Zp(a) == Set(a, Z, "parent", _Off(Z, X))
        BackZ(a) == Set(a, Nleft(a, Z), "parent", -(a.n[Z].left))
        InnerZ(a) == IF a.n[X].right # 0
                     THEN BackZ(Set(a, Z, "left", a.n[Z].parent + a.n[X].right))
                     ELSE Set(a, Z, "left", 0)
        Yp(a) == Set(a, Y, "parent", a.n[Y].right)
        BackY(a) == Set(a, Nright(a, Y), "parent", -(a.n[Y].right))
        InnerY(a) == IF a.n[X].left # 0
                     THEN BackY(Set(a, Y, "right", a.n[Y].right + a.n[X].left))
                     ELSE Set(a, Y, "right", 0)
        Xr(a) == Set(a, X, "right", _Off(X, Z))
        Xl(a) == Set(a, X, "left", _Off(X, Y))
    IN Xl(Xr(InnerY(Yp(InnerZ(Zp(Up(h)))))))

_Rotate_RL(h, Z, Y, X) ==
    LET P == NSafeParent(h, Z)
        Xp(a) == Set(a, X, "parent", _Off(X, P))
        Up(a) == IF P # nullptr
                 THEN Xp(Set(a, P, LinkTo(a, P, Z), _Off(P, X)))
                 ELSE Set(a, X, "parent", 0)
        Zp(a) == Set(a, Z, "parent", _Off(Z, X))
        BackZ(a) == Set(a, Nright(a, Z), "parent", -(a.n[Z].right))
        InnerZ(a) == IF a.n[X].left # 0
                     THEN BackZ(Set(a, Z, "right", a.n[Z].parent + a.n[X].left))
                     ELSE Set(a, Z, "right", 0)
        Yp(a) == Set(a, Y, "parent", a.n[Y].left)
        BackY(a) == Set(a, Nleft(a, Y), "parent", -(a.n[Y].left))
        InnerY(a) == IF a.n[X].right # 0
                     THEN BackY(Set(a, Y, "left", a.n[Y].left + a.n[X].right))
                     ELSE Set(a, Y, "left", 0)
        Xr(a) == Set(a, X, "right", _Off(X, Y))
        Xl(a) == Set(a, X, "left", _Off(X, Z))
    IN Xl(Xr(InnerY(Yp(InnerZ(Zp(Up(h)))))))

\* ------------------------------------------------------ insert rebalancing
Tick(h) == [h EXCEPT !.rot = h.rot + 1]
Flag(h) == [h EXCEPT !.bad = TRUE]

_Rotate_Insert(h, Z) ==
    LET Y == Nheavy(h, Z)
        X == Nheavy(h, Nheavy(h, Z))
        sw == Dir2Of(h.n[Z].tilt, h.n[Nheavy(h, Z)].tilt)
        Level(a) == Set(Set(a, Y, "tilt", None), Z, "tilt", None)
        YofLR(a) == Set(a, Y, "tilt", IF a.n[X].tilt = Right THEN Left ELSE None)
        ZofLR(a) == Set(a, Z, "tilt", IF a.n[X].tilt = Left THEN Right ELSE None)
        YofRL(a) == Set(a, Y, "tilt", IF a.n[X].tilt = Left THEN Right ELSE None)
        ZofRL(a) == Set(a, Z, "tilt", IF a.n[X].tilt = Right THEN Left ELSE None)
        Xnone(a) == Set(a, X, "tilt", None)
        Turn(a) ==
            CASE sw = LeftLeft -> Level(Tick(_Rotate_LL(a, Z, Y, X)))
              [] sw = RightRight -> Level(Tick(_Rotate_RR(a, Z, Y, X)))
              [] sw = LeftRight -> Xnone(ZofLR(YofLR(Tick(_Rotate_LR(a, Z, Y, X)))))
              [] sw = RightLeft -> Xnone(ZofRL(YofRL(Tick(_Rotate_RL(a, Z, Y, X)))))
              [] OTHER -> Flag(a)
    \* Nheavy() of a node whose heavy link is 0 is the node itself: the code
    \* goes on with it, the heap remembers that it happened
    IN Turn(IF Y = Z \/ X = Y THEN Flag(h) ELSE h)

\* as Retrace_Insert, but the node above the rotated subtree is made to lean
\* towards it
RECURSIVE RetraceInsertClimbOn(_, _, _)
RetraceInsertClimbOn(h, n, added) ==
    LET Climb(a) == RetraceInsertClimbOn(a, NSafeParent(a, n), Branch(a, n))
        Above(r, top) == IF r.n[top].parent = 0 THEN r
                         ELSE Set(r, Nparent(r, top), "tilt", Branch(r, top))
        On(r) == Above(r, Nparent(r, n))
    IN IF n = nullptr THEN h
       ELSE IF h.n[n].tilt = None
            THEN Climb(Set(h, n, "tilt", added))
            ELSE IF h.n[n].tilt # added
                 THEN Set(h, n, "tilt", None)
                 ELSE On(_Rotate_Insert(h, n))

\* as Retrace_Insert, but a node already leaning to the grown side is left alone
RECURSIVE RetraceInsertNoRotate(_, _, _)
RetraceInsertNoRotate(h, n, added) ==
    LET Climb(a) == RetraceInsertNoRotate(a, NSafeParent(a, n), Branch(a, n))
    IN IF n = nullptr THEN h
       ELSE IF h.n[n].tilt = None
            THEN Climb(Set(h, n, "tilt", added))
            ELSE IF h.n[n].tilt # added
                 THEN Set(h, n, "tilt", None)
                 ELSE h

RECURSIVE Retrace_Insert(_, _, _)
Retrace_Insert(h, n, added) ==
    LET Climb(a) == Retrace_Insert(a, NSafeParent(a, n), Branch(a, n))
    IN IF n = nullptr THEN h
       ELSE IF h.n[n].tilt = None
            THEN Climb(Set(h, n, "tilt", added))
            ELSE IF h.n[n].tilt # added
                 THEN Set(h, n, "tilt", None)
                 ELSE _Rotate_Insert(h, n)

\* as AddChild, but the child is not told its parent
AddChildNoParent(h, this, child, where) ==
    LET Hang(a) == Set(a, this, IF where = Left THEN "left" ELSE "right", _Off(this, child))
    IN Retrace_Insert(Hang(h), this, where)

\* as AddChild, with the child hung on the other side
AddChildOtherSide(h, this, child, where) ==
    LET Hang(a) == Set(a, this, IF where = Left THEN "right" ELSE "left", _Off(this, child))
        Own(a) == Set(a, child, "parent", _Off(child, this))
    IN Retrace_Insert(Own(Hang(h)), this, where)

\* ASSERT_THROW(child, "Cannot add null child")
AddChild(h, this, child, where) ==
    LET Hang(a) == Set(a, this, IF where = Left THEN "left" ELSE "right", _Off(this, child))
        Own(a) == Set(a, child, "parent", _Off(child, this))
    IN IF child = nullptr THEN Flag(h)
       ELSE Retrace_Insert(Own(Hang(h)), this, where)

\* ------------------------------------------------------- erase rebalancing
\* number of nodes on the longest path down from p, following left and right
RECURSIVE HeightFrom(_, _, _)
HeightFrom(c, p, fuel) ==
    IF p = nullptr \/ p \notin DOMAIN c.n \/ fuel = 0 THEN 0
    ELSE 1 + Max2(HeightFrom(c, NSafeLeft(c, p), fuel - 1),
                  HeightFrom(c, NSafeRight(c, p), fuel - 1))

Height(c, p) == HeightFrom(c, p, Cardinality(DOMAIN c.n) + 1)
LeftHeight(c, p) == Height(c, NSafeLeft(c, p))
RightHeight(c, p) == Height(c, NSafeRight(c, p))

\* as PickX, but under a balanced Y the child on the other side is taken
PickXOtherSide(h, Z, Y) ==
    IF NotDir(h.n[Y].tilt)
    THEN (IF h.n[Z].tilt = Left THEN NSafeRight(h, Y) ELSE NSafeLeft(h, Y))
    ELSE Nheavy(h, Y)

\* X = !Y->tilt ? (Z->tilt == Dir::Left ? Y->NSafeLeft() : Y->NSafeRight())
\*              : Y->Nheavy();
PickX(h, Z, Y) ==
    IF NotDir(h.n[Y].tilt)
    THEN (IF h.n[Z].tilt = Left THEN NSafeLeft(h, Y) ELSE NSafeRight(h, Y))
    ELSE Nheavy(h, Y)

\* what one erase rotation did, kept beside the heap: whether Y was balanced,
\* the case taken, the tilts of Z, Y and X before and after, the height of
\* the subtree before and after, and where the retrace goes on
Noted(h, r, Z, Y, X) ==
    [h |-> [r.h EXCEPT !.erot = Append(r.h.erot,
                [ybal |-> NotDir(h.n[Y].tilt),
                 sw |-> Dir2Of(h.n[Z].tilt, Branch(h, X)),
                 zt |-> <<h.n[Z].tilt, r.h.n[Z].tilt>>,
                 yt |-> <<h.n[Y].tilt, r.h.n[Y].tilt>>,
                 xt |-> <<h.n[X].tilt, r.h.n[X].tilt>>,
                 before |-> Height(h, Z),
                 after |-> Height(r.h, NSafeParent(r.h, Z)),
                 stop |-> r.o = nullptr,
                 top |-> r.o = NSafeParent(r.h, Z)])],
     o |-> r.o]

\* result: [h |-> heap, o |-> node to continue from, or nullptr to stop]
_Rotate_Erase(h, Z) ==
    LET Y == Nheavy(h, Z)
        X == PickX(h, Z, Nheavy(h, Z))
        Single(a, t) ==
            IF NotDir(a.n[Y].tilt)
            THEN [h |-> Set(a, Y, "tilt", t), o |-> nullptr]
            ELSE [h |-> Set(Set(a, Z, "tilt", None), Y, "tilt", None), o |-> Y]
        YofLR(a) == Set(a, Y, "tilt", IF a.n[X].tilt = Right THEN Left ELSE None)
        ZofLR(a) == Set(a, Z, "tilt", IF a.n[X].tilt = Left THEN Right ELSE None)
        YofRL(a) == Set(a, Y, "tilt", IF a.n[X].tilt = Left THEN Right ELSE None)
        ZofRL(a) == Set(a, Z, "tilt", IF a.n[X].tilt = Right THEN Left ELSE None)
        Double(a) == [h |-> Set(a, X, "tilt", None), o |-> X]
        Turn(sw) ==
            CASE sw = LeftLeft -> Single(Tick(_Rotate_LL(h, Z, Y, X)), Right)
              [] sw = RightRight -> Single(Tick(_Rotate_RR(h, Z, Y, X)), Left)
              [] sw = LeftRight -> Double(ZofLR(YofLR(Tick(_Rotate_LR(h, Z, Y, X)))))
              [] sw = RightLeft -> Double(ZofRL(YofRL(Tick(_Rotate_RL(h, Z, Y, X)))))
              [] OTHER -> [h |-> Flag(h), o |-> nullptr]
    IN IF X = nullptr THEN [h |-> Flag(h), o |-> nullptr]
       ELSE Noted(h, Turn(Dir2Of(h.n[Z].tilt, Branch(h, X))), Z, Y, X)

RECURSIVE RetraceEraseLoop(_, _, _)
RetraceEraseLoop(h, n, del) ==
    LET Climb(a, from) == RetraceEraseLoop(a, NSafeParent(a, from), Branch(a, from))
        Rotated(r) == IF r.o = nullptr THEN r.h ELSE Climb(r.h, r.o)
    IN IF n = nullptr THEN h
       ELSE IF NotDir(h.n[n].tilt)
            THEN Set(h, n, "tilt", Opp(del))
            ELSE IF h.n[n].tilt = del
                 THEN Climb(Set(h, n, "tilt", None), n)
                 ELSE Rotated(_Rotate_Erase(h, n))

Retrace_Erase(h, n, del) ==
    RetraceEraseLoop(IF del = None THEN Flag(h) ELSE h, n, del)

\* as _DecommissionNode, but the node is chained without being wiped
DecommissionNodeDirty(h, n, Del) ==
    LET Chain(a) == IF a.n[Del].right # 0
                    THEN Set(a, n, "right", _Off(n, Del) + a.n[Del].right)
                    ELSE a
        First(a) == Set(a, Del, "right", _Off(Del, n))
    IN First(Chain(h))

\* as _DecommissionNode, but the wiped node is not put on the chain
DecommissionNodeUnlinked(h, n, Del) ==
    [h EXCEPT !.n[n] = ZeroNode]

\* ASSERT_THROW(n && Del, "Both nodes must be present for decommissioning")
_DecommissionNode(h, n, Del) ==
    LET Chain(a) == IF a.n[Del].right # 0
                    THEN Set(a, n, "right", _Off(n, Del) + a.n[Del].right)
                    ELSE a
        First(a) == Set(a, Del, "right", _Off(Del, n))
    IN IF n = nullptr \/ Del = nullptr THEN Flag(h)
       ELSE First(Chain([h EXCEPT !.n[n] = ZeroNode]))

\* -------------------------------------------------------------------- erase
\* payload.~Tu(): the record keeps its bytes, the call is logged
__DestroyPayload(h, p) == [h EXCEPT !.dtor = Append(h.dtor, p)]

RECURSIVE LeftmostOf(_, _)
LeftmostOf(h, n) ==
    IF n # nullptr /\ h.n[n].left # 0 THEN LeftmostOf(h, Nleft(h, n)) ELSE n

\* while (swap->right) swap = swap->Nright();
RECURSIVE RightmostOf(_, _)
RightmostOf(h, n) ==
    IF h.n[n].right # 0 THEN RightmostOf(h, Nright(h, n)) ELSE n

\* the rewiring part of _SwapWith
SwapLinks(h, this, o) ==
    LET PB == Nparent(h, o)
        AL == Nleft(h, this)
        AR == Nright(h, this)
        PA == NSafeParent(h, this)
        \* the parent of 'this' is wired with o
        Op(a) == Set(a, o, "parent", _Off(o, PA))
        Up(a) == IF PA # nullptr
                 THEN Op(Set(a, PA, LinkTo(a, PA, this), _Off(PA, o)))
                 ELSE Set(a, o, "parent", 0)
        \* o is the left child of 'this'
        LTp(a) == Set(a, this, "parent", a.n[this].left)
        LTl(a) == Set(a, this, "left", _Off(this, Nleft(a, o)))
        LSub(a) == IF a.n[o].left # 0
                   THEN LTl(Set(a, Nleft(a, o), "parent", _Off(Nleft(a, o), this)))
                   ELSE Set(a, this, "left", 0)
        LRest(a) == Set(Set(Set(Set(a, AR, "parent", _Off(AR, o)),
                                o, "left", _Off(o, this)),
                            o, "right", _Off(o, AR)),
                        this, "right", 0)
        \* o is the right child of 'this'
        RTp(a) == Set(a, this, "parent", a.n[this].right)
        RTr(a) == Set(a, this, "right", _Off(this, Nright(a, o)))
        RSub(a) == IF a.n[o].right # 0
                   THEN RTr(Set(a, Nright(a, o), "parent", _Off(Nright(a, o), this)))
                   ELSE Set(a, this, "right", 0)
        RRest(a) == Set(Set(Set(Set(a, AL, "parent", _Off(AL, o)),
                                o, "right", _Off(o, this)),
                            o, "left", _Off(o, AL)),
                        this, "left", 0)
        \* o is further down
        Pb(a) == Set(a, PB, LinkTo(a, PB, o), _Off(PB, this))
        Tp(a) == Set(a, this, "parent", _Off(this, PB))
        ALp(a) == Set(a, AL, "parent", _Off(AL, o))
        BLt(a, BL) == IF BL # nullptr
                      THEN Set(Set(a, BL, "parent", _Off(BL, this)), this, "left", _Off(this, BL))
                      ELSE Set(a, this, "left", 0)
        BLeft(a) == BLt(a, NSafeLeft(a, o))
        Ol(a) == Set(a, o, "left", _Off(o, AL))
        ARp(a) == Set(a, AR, "parent", _Off(AR, o))
        BRt(a, BR) == IF BR # nullptr
                      THEN Set(Set(a, BR, "parent", _Off(BR, this)), this, "right", _Off(this, BR))
                      ELSE Set(a, this, "right", 0)
        BRight(a) == BRt(a, NSafeRight(a, o))
        Or(a) == Set(a, o, "right", _Off(o, AR))
    IN IF o = AL THEN LRest(LSub(LTp(Up(h))))
       ELSE IF o = AR THEN RRest(RSub(RTp(Up(h))))
       ELSE Or(BRight(ARp(Ol(BLeft(ALp(Tp(Up(Pb(h)))))))))

\* as _SwapWith, but nothing is exchanged
SwapWithNothing(h, this, o) == h

\* as _SwapWith, but each node keeps its own tilt
SwapWithKeepTilts(h, this, o) == SwapLinks(h, this, o)

\* as _SwapWith, but the two payloads change places as well
SwapWithPayloads(h, this, o) ==
    LET Tilts(a) == Set(Set(a, this, "tilt", a.n[o].tilt), o, "tilt", a.n[this].tilt)
        Loads(a) == Set(Set(a, this, "payload", a.n[o].payload), o, "payload", a.n[this].payload)
    IN Loads(Tilts(SwapLinks(h, this, o)))

\* the nodes change places in the tree; each keeps its address and payload
_SwapWith(h, this, o) ==
    LET Tilts(a) == Set(Set(a, this, "tilt", a.n[o].tilt), o, "tilt", a.n[this].tilt)
    IN Tilts(SwapLinks(h, this, o))

\* as SwapPartner, but only a node leaning left goes to its left subtree
SwapPartnerRightUnlessLeft(h, n) ==
    IF h.n[n].tilt = Left
    THEN RightmostOf(h, Nleft(h, n))
    ELSE LeftmostOf(h, Nright(h, n))

\* which in-order neighbour a two-child node is exchanged with
SwapPartner(h, n) ==
    IF h.n[n].tilt = Right
    THEN LeftmostOf(h, Nright(h, n))
    ELSE RightmostOf(h, Nleft(h, n))

\* child T (or none, T = nullptr) takes n's place under P, then the retrace
Splice(h, n, P, T) ==
    LET Tp(a) == IF T # nullptr THEN Set(a, T, "parent", _Off(T, P)) ELSE a
        v == IF T # nullptr THEN _Off(P, T) ELSE 0
        Cut(a) == IF a.n[P].left = -(a.n[n].parent)
                  THEN Retrace_Erase(Set(a, P, "left", v), P, Left)
                  ELSE Retrace_Erase(Set(a, P, "right", v), P, Right)
    IN Cut(Tp(h))

\* as NothingToErase, without the IsEmpty test
NothingToEraseNullOnly(h, n) == n = nullptr

\* if (!n || n->IsEmpty()) return false;
NothingToErase(h, n) == n = nullptr \/ IsEmpty(h, n)

\* result: [h |-> heap, outRoot |-> root pointer, ok |-> returned flag]
_EraseNode(h, outRoot, n) ==
    LET Swapped(a) == IF a.n[n].left # 0 /\ a.n[n].right # 0
                      THEN [_SwapWith(a, n, SwapPartner(a, n)) EXCEPT !.swaps = a.swaps + 1]
                      ELSE a
        Rooted(a, P) == [h |-> a, outRoot |-> Root(a, P)]
        Under(s, P, T1, T2) ==
            IF P # nullptr
            THEN Rooted(IF T1 # nullptr /\ T2 # nullptr THEN Flag(s)
                        ELSE IF T1 # nullptr THEN Splice(s, n, P, T1)
                        ELSE IF T2 # nullptr THEN Splice(s, n, P, T2)
                        ELSE Splice(s, n, P, nullptr), P)
            ELSE IF T1 # nullptr /\ T2 # nullptr THEN [h |-> Flag(s), outRoot |-> outRoot]
            ELSE IF T1 # nullptr THEN [h |-> Set(s, T1, "parent", 0), outRoot |-> T1]
            ELSE IF T2 # nullptr THEN [h |-> Set(s, T2, "parent", 0), outRoot |-> T2]
            ELSE [h |-> s, outRoot |-> nullptr]
        Unlink(s) == Under(s, NSafeParent(s, n), NSafeLeft(s, n), NSafeRight(s, n))
        Wipe(a) == Set(Set(Set(a, n, "parent", 0), n, "left", 0), n, "right", 0)
        Done(r) == [h |-> __DestroyPayload(Wipe(r.h), n), outRoot |-> r.outRoot, ok |-> TRUE]
    IN IF NothingToErase(h, n)
       THEN [h |-> h, outRoot |-> outRoot, ok |-> FALSE]
       ELSE Done(Unlink(Swapped(h)))

\* ------------------------------------------------------------------ lookup
\* as ClimbNext, but the parent is the answer whatever the branch
ClimbNextOnce(h, n, b) == NSafeParent(h, n)

RECURSIVE ClimbNext(_, _, _)
ClimbNext(h, n, b) ==
    LET q == NSafeParent(h, n)
    IN IF q = nullptr THEN nullptr
       ELSE IF b = Left THEN q
       ELSE ClimbNext(h, q, Branch(h, q))

InorderNextOf(h, n) ==
    IF n = nullptr THEN nullptr
    ELSE IF h.n[n].right # 0 THEN LeftmostOf(h, Nright(h, n))
    ELSE ClimbNext(h, n, Branch(h, n))

\* as _InsertionPointFor, but an equivalent value goes to the right
RECURSIVE InsertionPointDupRight(_, _, _)
InsertionPointDupRight(h, n, v) ==
    IF n = nullptr THEN <<n, None>>
    ELSE IF Less(v, h.n[n].payload)
         THEN (IF h.n[n].left # 0 THEN InsertionPointDupRight(h, Nleft(h, n), v) ELSE <<n, Left>>)
         ELSE (IF h.n[n].right # 0 THEN InsertionPointDupRight(h, Nright(h, n), v) ELSE <<n, Right>>)

\* result: <<node, Dir>>
RECURSIVE _InsertionPointFor(_, _, _)
_InsertionPointFor(h, n, v) ==
    IF n = nullptr THEN <<n, None>>
    ELSE IF Less(h.n[n].payload, v)
         THEN (IF h.n[n].right # 0 THEN _InsertionPointFor(h, Nright(h, n), v) ELSE <<n, Right>>)
         ELSE IF Less(v, h.n[n].payload)
              THEN (IF h.n[n].left # 0 THEN _InsertionPointFor(h, Nleft(h, n), v) ELSE <<n, Left>>)
              ELSE <<n, None>>

\* ---------------------------------------------------------------- _AvlTree
N0(c) == c.ptr_
Nptr(c, o) == c.ptr_ + o
NSafePtr(c, o) == IF o # 0 THEN c.ptr_ + o ELSE nullptr
Optr(c, p) == p - c.ptr_

\* as ToSlot, counting the first record after the sentinel as 0
ToSlotZeroBased(o) == IF o # 0 THEN o \div Nsize - 1 ELSE 0

ToSlot(o) == IF o # 0 THEN o \div Nsize ELSE 0

\* as _CreateNode, but a new record is always appended
CreateNodeNoReuse(c, v, pick) ==
    LET Fill(a, nn) == [c |-> Set(Set(a, nn, "tilt", None), nn, "payload", v), n |-> nn]
        Fresh(a) == Fill(a, a.ptr_ + a.len_ - Nsize)
    IN Fresh(_PtrAppendZeroBytes(c, Nsize, pick))

\* as _CreateNode, but a reused node stays first in the chain
CreateNodeNoPop(c, v, pick) ==
    LET n == NSafeRight(c, N0(c))
        Fill(a, nn) == [c |-> Set(Set(a, nn, "tilt", None), nn, "payload", v), n |-> nn]
        Fresh(a) == Fill(a, a.ptr_ + a.len_ - Nsize)
    IN IF n # nullptr
       THEN Fill(Set(c, n, "right", 0), n)
       ELSE Fresh(_PtrAppendZeroBytes(c, Nsize, pick))

\* result: [c |-> container, n |-> the node]
_CreateNode(c, v, pick) ==
    LET n == NSafeRight(c, N0(c))
        Pop(a) == Set(a, N0(a), "right",
                      IF a.n[n].right # 0 THEN a.n[N0(a)].right + a.n[n].right ELSE 0)
        Fill(a, nn) == [c |-> Set(Set(a, nn, "tilt", None), nn, "payload", v), n |-> nn]
        Fresh(a) == IF a.oom THEN [c |-> a, n |-> nullptr]
                    ELSE Fill(a, a.ptr_ + a.len_ - Nsize)
    IN IF n # nullptr
       THEN Fill(Set(Pop(c), n, "right", 0), n)
       ELSE Fresh(_PtrAppendZeroBytes(c, Nsize, pick))

\* as InsertExisting, but the stored payload is replaced by v
InsertExistingOverwrite(c, pnode, v) ==
    [c |-> Set(c, pnode, "payload", v), off |-> Optr(c, pnode), added |-> FALSE]

\* the value is already there: n = pnode; added = false;
InsertExisting(c, pnode, v) == [c |-> c, off |-> Optr(c, pnode), added |-> FALSE]

\* as RootAfterInsert, but the stored offset is kept
RootAfterInsertKept(a) == a._Root

\* _Root += Nptr(_Root)->parent;
RootAfterInsert(a) == a._Root + a.n[Nptr(a, a._Root)].parent

\* result: [c |-> container, off |-> offset of the element, added |-> flag]
Insert(c, v, pick) ==
    LET Added(b, n) == [c |-> [b EXCEPT !._Cnt = b._Cnt + 1], off |-> Optr(b, n),
                        added |-> TRUE]
        Reroot(a, n) == Added([a EXCEPT !._Root = RootAfterInsert(a)], n)
        \* std::bad_alloc leaves Insert where it was thrown
        Thrown(b) == [c |-> b, off |-> 0, added |-> FALSE]
        Hang(cr, parent, dir) ==
            IF cr.c.oom THEN Thrown(cr.c)
            ELSE Reroot(AddChild(cr.c, Nptr(cr.c, parent), cr.n, dir), cr.n)
        First(cr) == IF cr.c.oom THEN Thrown(cr.c)
                     ELSE Added([cr.c EXCEPT !._Root = Optr(cr.c, cr.n)], cr.n)
        At(c1, ip) == IF ip[2] = None
                      THEN InsertExisting(c1, ip[1], v)
                      ELSE Hang(_CreateNode(c1, v, pick), Optr(c1, ip[1]), ip[2])
        Into(c1) == IF c1.oom THEN Thrown(c1)
                    ELSE IF c1._Root # 0
                    THEN At(c1, _InsertionPointFor(c1, Nptr(c1, c1._Root), v))
                    ELSE First(_CreateNode(c1, v, pick))
    IN Into(IF c.len_ = 0 THEN _PtrAppendZeroBytes(c, Nsize, pick) ELSE c)

\* the common tail of Erase and EraseAtOffset
EraseFound(c, Proot, pnode) ==
    LET Counted(a, outRoot) ==
            [a EXCEPT !._Cnt = a._Cnt - 1,
                      !._Root = IF outRoot # nullptr THEN Optr(a, outRoot) ELSE 0]
        Free(a) == _DecommissionNode(a, pnode, N0(a))
        Erased(r) == IF r.ok THEN Free(Counted(r.h, r.outRoot)) ELSE c
    IN Erased(_EraseNode(c, Proot, pnode))

Erase(c, v) ==
    LET Proot == NSafePtr(c, c._Root)
        At(ip) == IF ip[2] = None THEN EraseFound(c, Proot, ip[1]) ELSE c
    IN IF Proot # nullptr THEN At(_InsertionPointFor(c, Proot, v)) ELSE c

EraseAtOffset(c, o) ==
    LET Proot == NSafePtr(c, c._Root)
        pnode == NSafePtr(c, o)
    IN IF Proot # nullptr
       THEN (IF pnode # nullptr THEN EraseFound(c, Proot, pnode) ELSE c)
       ELSE c

\* the node the returned iterator holds, nullptr for End()
FindNode(c, v) ==
    LET Proot == NSafePtr(c, c._Root)
        At(ip) == IF ip[2] = None THEN ip[1] ELSE nullptr
    IN IF Proot # nullptr THEN At(_InsertionPointFor(c, Proot, v)) ELSE nullptr

Begin(c) == LeftmostOf(c, NSafePtr(c, c._Root))
End == nullptr

RECURSIVE DestroyRecursive(_, _)
DestroyRecursive(h, p) ==
    LET Lsub(a) == IF a.n[p].left # 0 THEN DestroyRecursive(a, Nleft(a, p)) ELSE a
        Rsub(a) == IF a.n[p].right # 0 THEN DestroyRecursive(a, Nright(a, p)) ELSE a
    IN Rsub(Lsub(__DestroyPayload(h, p)))

_Reset(c) ==
    IF c.ptr_ # nullptr
    THEN [c EXCEPT !.ptr_ = nullptr, !.len_ = 0, !.capacity_ = 0, !.n = << >>]
    ELSE c

\* as Clear, but the element count is left as it was
ClearKeepCount(c) ==
    LET R == NSafePtr(c, c._Root)
    IN _Reset(IF R # nullptr
              THEN [DestroyRecursive(c, R) EXCEPT !._Root = 0]
              ELSE c)

Clear(c) ==
    LET R == NSafePtr(c, c._Root)
    IN _Reset(IF R # nullptr
              THEN [DestroyRecursive(c, R) EXCEPT !._Root = 0, !._Cnt = 0]
              ELSE c)

\* ----------------------------------------------------------------------- set
insert(c, v, pick) ==
    LET Ret(r) == [c |-> r.c, slot |-> ToSlot(r.off), added |-> r.added]
    IN Ret(Insert(c, v, pick))
erase(c, v) == Erase(c, v)
erase_at(c, pos) == EraseAtOffset(c, pos * Nsize)
\* as reserve, without the room for the sentinel
ReserveNoSentinel(c, count, pick) == _Reserve(c, count * Nsize, pick)

reserve(c, count, pick) == _Reserve(c, (count + 1) * Nsize, pick)
size(c) == c._Cnt
find_slot(c, v) ==
    LET Ret(it) == IF it # nullptr THEN ToSlot(Optr(c, it)) ELSE 0
    IN Ret(FindNode(c, v))
at(c, pos) == c.n[Nptr(c, pos * Nsize)].payload

\* ------------------------------------------------- copy and move construction
\* as CopyCtor, but every link is moved by the distance between the buffers
CopyCtorFixup(o, pick) ==
    LET nb == Malloc(o.ptr_, pick)
        d == nb - o.ptr_
        fix(l) == IF l # 0 THEN l + d ELSE 0
        g == IF o.ptr_ # nullptr
             THEN [ptr_ |-> nb, len_ |-> o.len_, capacity_ |-> o.capacity_,
                   n |-> [a \in {nb + (b - o.ptr_) : b \in DOMAIN o.n} |->
                            [o.n[a - d] EXCEPT !.parent = fix(@), !.left = fix(@),
                                               !.right = fix(@)]]]
             ELSE [ptr_ |-> nullptr, len_ |-> 0, capacity_ |-> 0, n |-> << >>]
    IN [o EXCEPT !.ptr_ = g.ptr_, !.len_ = g.len_, !.capacity_ = g.capacity_, !.n = g.n,
                 !._Cnt = o._Cnt, !._Root = o._Root]

\* _Growable(const _Growable&) then the defaulted copy of _Cnt and _Root
CopyCtor(o, pick) ==
    LET nb == Malloc(o.ptr_, pick)
        g == IF o.ptr_ # nullptr
             THEN [ptr_ |-> nb, len_ |-> o.len_, capacity_ |-> o.capacity_,
                   n |-> [a \in {nb + (b - o.ptr_) : b \in DOMAIN o.n} |-> o.n[a - nb + o.ptr_]]]
             ELSE [ptr_ |-> nullptr, len_ |-> 0, capacity_ |-> 0, n |-> << >>]
    IN [o EXCEPT !.ptr_ = g.ptr_, !.len_ = g.len_, !.capacity_ = g.capacity_, !.n = g.n,
                 !._Cnt = o._Cnt, !._Root = o._Root]

\* _Growable(_Growable&&) then the defaulted move of _Cnt and _Root;
\* result: [dst |-> the new object, src |-> what is left of o]
MoveCtor(o) ==
    IF o.ptr_ # nullptr
    THEN [dst |-> o,
          src |-> [o EXCEPT !.ptr_ = nullptr, !.len_ = 0, !.capacity_ = 0, !.n = << >>]]
    ELSE [dst |-> [o EXCEPT !.ptr_ = nullptr, !.len_ = 0, !.capacity_ = 0, !.n = << >>],
          src |-> o]

\* ------------------------------------------------------------- state machine
VARIABLES
    ptr_, len_, capacity_,  \* _Growable of the container
    mem,                    \* the records in the buffer, by address
    _Root, _Cnt,            \* _AvlTree
    other,                  \* the object built from the container by copy or move
    ub,                     \* a pointer outside every buffer was dereferenced
    last,                   \* the last call, its argument and what it returned
    ref,                    \* reference ordered set given the same calls
    slotOf,                 \* slot insert returned for each key still in the set
    freed,                  \* slots of erased elements not reused yet, newest first
    rt                      \* the erase whose slot is followed until its value returns

cvars == <<ptr_, len_, capacity_, mem, _Root, _Cnt>>
vars == <<ptr_, len_, capacity_, mem, _Root, _Cnt, other, ub, last, ref, slotOf, freed, rt>>

NoObj == [kind |-> "none"]
NoWatch == [x |-> 0, s |-> 0, ins |-> FALSE, add |-> FALSE, chg |-> FALSE, back |-> 0]

Cur == [ptr_ |-> ptr_, len_ |-> len_, capacity_ |-> capacity_, n |-> mem,
        _Root |-> _Root, _Cnt |-> _Cnt,
        rot |-> 0, bad |-> FALSE, dtor |-> << >>, reallocs |-> 0, swaps |-> 0,
        fail |-> 0, oom |-> FALSE, erot |-> << >>]

Store(c) ==
    /\ ptr_' = c.ptr_
    /\ len_' = c.len_
    /\ capacity_' = c.capacity_
    /\ mem' = c.n
    /\ _Root' = c._Root
    /\ _Cnt' = c._Cnt

Call(op, arg, slot, flag, c) ==
    [op |-> op, arg |-> arg, slot |-> slot, flag |-> flag,
     rot |-> c.rot, bad |-> c.bad, dtor |-> Len(c.dtor), reallocs |-> c.reallocs,
     swaps |-> c.swaps, oom |-> c.oom, erot |-> c.erot]

\* the stored root designates no record of the buffer (moved-from source)
Wild(c) == c._Root # 0 /\ (c.ptr_ + c._Root) \notin DOMAIN c.n

Usable == other = NoObj /\ ~ub /\ ~Wild(Cur)

RefHas(x) == \E e \in ref : e.x = x
Without(q, s) == SelectSeq(q, LAMBDA e : e # s)
Range(q) == {q[i] : i \in 1..Len(q)}

Init ==
    /\ ptr_ = nullptr /\ len_ = 0 /\ capacity_ = 0
    /\ mem = << >>
    /\ _Root = 0 /\ _Cnt = 0
    /\ other = NoObj
    /\ ub = FALSE
    /\ last = [op |-> "init", arg |-> 0, slot |-> 0, flag |-> FALSE,
               rot |-> 0, bad |-> FALSE, dtor |-> 0, reallocs |-> 0, swaps |-> 0,
               oom |-> FALSE, erot |-> << >>]
    /\ ref = {}
    /\ slotOf = [k \in SlotKeys |-> 0]
    /\ freed = << >>
    /\ rt = NoWatch

\* a key is first offered with y = 0 (the driver's Src.push_back({ i,0 })) and,
\* while it is in the set, with any y (the driver's Scramble)
InsertStep(v, pick) ==
    /\ Usable
    /\ RefHas(v.x) \/ v.y = 0
    /\ LET Ret(r) ==
               /\ Store(r.c)
               /\ last' = Call("insert", v, r.slot, r.added, r.c)
               /\ ref' = IF RefHas(v.x) THEN ref ELSE ref \cup {v}
               /\ slotOf' = IF RefHas(v.x) THEN slotOf ELSE [slotOf EXCEPT ![v.x] = r.slot]
               /\ freed' = IF RefHas(v.x) THEN freed ELSE Without(freed, r.slot)
       IN Ret(insert(Cur, v, pick))
    /\ UNCHANGED <<other, ub>>

EraseStep(v) ==
    /\ Usable
    /\ LET Ret(c) ==
               /\ Store(c)
               /\ last' = Call("erase", v, 0, RefHas(v.x), c)
       IN Ret(erase(Cur, v))
    /\ ref' = {e \in ref : e.x # v.x}
    /\ slotOf' = [slotOf EXCEPT ![v.x] = 0]
    /\ freed' = IF RefHas(v.x) THEN <<slotOf[v.x]>> \o freed ELSE freed
    /\ UNCHANGED <<other, ub>>

\* the slot is in use: insert returned it and its element was not erased since
LiveSlot(pos) == pos # 0 /\ \E k \in SlotKeys : slotOf[k] = pos

\* slots the caller may pass: any while the tree is empty (nothing is read),
\* else those of records inside the buffer
EraseAtStep(pos) ==
    /\ Usable
    /\ IF _Root = 0 THEN TRUE ELSE pos * Nsize < len_
    /\ LET Ret(c) ==
               /\ Store(c)
               /\ last' = Call("erase_at", pos, 0, LiveSlot(pos), c)
       IN Ret(erase_at(Cur, pos))
    /\ ref' = IF LiveSlot(pos) THEN ref \ {at(Cur, pos)} ELSE ref
    /\ slotOf' = [k \in SlotKeys |-> IF slotOf[k] = pos THEN 0 ELSE slotOf[k]]
    /\ freed' = IF LiveSlot(pos) THEN <<pos>> \o freed ELSE freed
    /\ UNCHANGED <<other, ub>>

ClearStep ==
    /\ Usable
    /\ LET Ret(c) ==
               /\ Store(c)
               /\ last' = Call("clear", 0, 0, FALSE, c)
       IN Ret(Clear(Cur))
    /\ ref' = {}
    /\ slotOf' = [k \in SlotKeys |-> 0]
    /\ freed' = << >>
    /\ UNCHANGED <<other, ub>>

DoInsert ==
    \E v \in Values, pick \in Bases : InsertStep(v, pick) /\ UNCHANGED rt

DoErase ==
    \E v \in Values : EraseStep(v) /\ UNCHANGED rt

DoEraseAt ==
    \E pos \in 0..(MaxKey + 1) : EraseAtStep(pos) /\ UNCHANGED rt

DoClear ==
    ClearStep /\ UNCHANGED rt

DoReserve ==
    \E count \in 0..MaxReserve, pick \in Bases :
        /\ Usable
        /\ LET Ret(c) ==
                   /\ Store(c)
                   /\ last' = Call("reserve", count, 0, FALSE, c)
           IN Ret(reserve(Cur, count, pick))
        /\ UNCHANGED <<other, ub, ref, slotOf, freed, rt>>

DoCopy ==
    \E pick \in Bases :
        /\ Usable
        /\ other' = [kind |-> "copy", c |-> CopyCtor(Cur, pick)]
        /\ last' = Call("copy", 0, 0, FALSE, Cur)
        /\ UNCHANGED <<cvars, ub, ref, slotOf, freed, rt>>

\* the reference of a moved-from set is the empty set
DoMove ==
    /\ Usable
    /\ LET Ret(r) ==
               /\ Store(r.src)
               /\ other' = [kind |-> "move", c |-> r.dst]
               /\ last' = Call("move", 0, 0, FALSE, Cur)
       IN Ret(MoveCtor(Cur))
    /\ ref' = {}
    /\ slotOf' = [k \in SlotKeys |-> 0]
    /\ freed' = << >>
    /\ UNCHANGED <<ub, rt>>

\* the destructor of the object built by copy or move
DoDrop ==
    /\ other # NoObj /\ ~ub
    /\ other' = NoObj
    /\ last' = Call("drop", 0, 0, FALSE, Clear(other.c))
    /\ UNCHANGED <<cvars, ub, ref, slotOf, freed, rt>>

\* begin(), find(), erase(), clear() or the destructor on a moved-from source
\* whose _Root is still set: the root pointer is head + _Root with head null
DoUseMoved ==
    /\ other = NoObj /\ ~ub /\ Wild(Cur)
    /\ ub' = TRUE
    /\ last' = Call("use", 0, 0, FALSE, Cur)
    /\ UNCHANGED <<cvars, other, ref, slotOf, freed, rt>>

Next ==
    \/ DoInsert
    \/ DoErase
    \/ DoEraseAt
    \/ DoReserve
    \/ DoClear
    \/ DoCopy
    \/ DoMove
    \/ DoDrop
    \/ DoUseMoved

Spec == Init /\ [][Next]_vars

\* ------------------------------------------- the same calls, one erase followed
\* rt.x is the key whose erase is followed and rt.s the slot it had; rt.ins:
\* insert was called with another value since; rt.add: such a call added an
\* element; rt.chg: another element was added or removed, or the set was
\* cleared, since; rt.back: the slot the insert that brought rt.x back
\* returned, 0 until then
Watching == rt.x # 0 /\ rt.back = 0

Watch(x, called, added, removed, cleared, slot) ==
    IF ~Watching
    THEN (IF removed
          THEN [NoWatch EXCEPT !.x = x, !.s = slotOf[x]]
          ELSE rt)
    ELSE IF added /\ x = rt.x THEN [rt EXCEPT !.back = slot]
    ELSE [rt EXCEPT !.ins = rt.ins \/ called,
                    !.add = rt.add \/ added,
                    !.chg = rt.chg \/ added \/ removed \/ cleared]

SlotKey(pos) == CHOOSE k \in SlotKeys : slotOf[k] = pos

RtInsert ==
    \E v \in Values, pick \in Bases :
        /\ v.x <= MaxKeyRT
        /\ InsertStep(v, pick)
        /\ rt' = Watch(v.x, TRUE, last'.flag, FALSE, FALSE, last'.slot)

RtErase ==
    \E v \in Values :
        /\ v.x <= MaxKeyRT /\ v.y = 0
        /\ EraseStep(v)
        /\ rt' = Watch(v.x, FALSE, FALSE, RefHas(v.x), FALSE, 0)

RtEraseAt ==
    \E pos \in 0..MaxKeyRT :
        /\ EraseAtStep(pos)
        /\ rt' = IF LiveSlot(pos)
                 THEN Watch(SlotKey(pos), FALSE, FALSE, TRUE, FALSE, 0)
                 ELSE rt

RtClear ==
    /\ ClearStep
    /\ rt' = Watch(0, FALSE, FALSE, FALSE, TRUE, 0)

NextRT ==
    \/ RtInsert
    \/ RtErase
    \/ RtEraseAt
    \/ RtClear

SpecRT == Init /\ [][NextRT]_vars

\* ------------------------------------------ the same calls, malloc may fail
\* insert while the allocator refuses the f-th block the call asks for; the
\* caller catches std::bad_alloc and goes on using the set
InsertOomStep(v, pick, f) ==
    /\ Usable
    /\ RefHas(v.x) \/ v.y = 0
    /\ LET Ret(r) ==
               /\ Store(r.c)
               /\ last' = Call("insert", v, r.slot, r.added, r.c)
               /\ ref' = IF RefHas(v.x) \/ r.c.oom THEN ref ELSE ref \cup {v}
               /\ slotOf' = IF RefHas(v.x) \/ r.c.oom THEN slotOf
                             ELSE [slotOf EXCEPT ![v.x] = r.slot]
               /\ freed' = IF RefHas(v.x) \/ r.c.oom THEN freed ELSE Without(freed, r.slot)
       IN Ret(insert([Cur EXCEPT !.fail = f], v, pick))
    /\ UNCHANGED <<other, ub>>

OomInsert ==
    \E v \in Values, pick \in Bases, f \in 1..MaxFail :
        InsertOomStep(v, pick, f) /\ UNCHANGED rt

NextOom ==
    \/ OomInsert
    \/ DoInsert
    \/ DoErase
    \/ DoEraseAt
    \/ DoReserve
    \/ DoClear

SpecOom == Init /\ [][NextOom]_vars

\* ------------------------------------------------ inserts only, more keys
\* for (u32 i = 0; i < count; i++) Set.insert(Src[i]), in any order of the
\* keys 1..MaxKeyAsc, each offered once
AscInsert ==
    \E k \in 1..MaxKeyAsc, pick \in Bases :
        /\ ~RefHas(k)
        /\ InsertStep([x |-> k, y |-> 0], pick)
        /\ UNCHANGED rt

NextAsc ==
    \/ AscInsert

SpecAsc == Init /\ [][NextAsc]_vars

\* ------------------------------- ascending inserts, then erases in any order
\* the keys 1, 2, ... are inserted in this order (the driver's ASC insertion);
\* once an erase has been made, only erases follow
DelInsert ==
    \E pick \in Bases :
        /\ freed = << >>
        /\ Cardinality(ref) < MaxKeyAsc
        /\ \A e \in ref : e.x <= Cardinality(ref)
        /\ InsertStep([x |-> Cardinality(ref) + 1, y |-> 0], pick)
        /\ UNCHANGED rt

DelErase ==
    \E k \in 1..MaxKeyAsc :
        /\ RefHas(k)
        /\ EraseStep([x |-> k, y |-> 0])
        /\ UNCHANGED rt

NextDel ==
    \/ DelInsert
    \/ DelErase

SpecDel == Init /\ [][NextDel]_vars

\* ------------------------------------------------------------ observations
\* payloads met from begin() by ++ until end(); fuel stops a walk that cycles
RECURSIVE IterFrom(_, _, _)
IterFrom(c, n, fuel) ==
    IF n = nullptr \/ fuel = 0 THEN << >>
    ELSE <<c.n[n].payload>> \o IterFrom(c, InorderNextOf(c, n), fuel - 1)

IterSeq(c) == IterFrom(c, Begin(c), Cardinality(DOMAIN c.n) + 1)

\* the elements of a set of payloads in the comparator's order
RECURSIVE SortedSeq(_)
SortedSeq(S) ==
    IF S = {} THEN << >>
    ELSE LET m == CHOOSE e \in S : \A f \in S \ {e} : Less(e, f)
         IN <<m>> \o SortedSeq(S \ {m})

\* records of the buffer reached from p by left and right links
RECURSIVE ReachFrom(_, _, _)
ReachFrom(c, p, fuel) ==
    IF p = nullptr \/ p \notin DOMAIN c.n \/ fuel = 0 THEN {}
    ELSE {p} \cup ReachFrom(c, NSafeLeft(c, p), fuel - 1)
             \cup ReachFrom(c, NSafeRight(c, p), fuel - 1)

Reach(c) == ReachFrom(c, NSafePtr(c, c._Root), Cardinality(DOMAIN c.n) + 1)

\* payloads in the order Inorder calls back: left subtree, node, right subtree
RECURSIVE InorderFrom(_, _, _)
InorderFrom(c, p, fuel) ==
    IF p = nullptr \/ p \notin DOMAIN c.n \/ fuel = 0 THEN << >>
    ELSE InorderFrom(c, NSafeLeft(c, p), fuel - 1)
         \o <<c.n[p].payload>>
         \o InorderFrom(c, NSafeRight(c, p), fuel - 1)

Inorder(c) == InorderFrom(c, NSafePtr(c, c._Root), Cardinality(DOMAIN c.n) + 1)

\* the live node whose payload comes right before / right after that of n
PredecessorOf(c, n) ==
    CHOOSE p \in Reach(c) :
        /\ Less(c.n[p].payload, c.n[n].payload)
        /\ \A q \in Reach(c) : Less(c.n[q].payload, c.n[n].payload) =>
                                   ~Less(c.n[p].payload, c.n[q].payload)
SuccessorOf(c, n) ==
    CHOOSE p \in Reach(c) :
        /\ Less(c.n[n].payload, c.n[p].payload)
        /\ \A q \in Reach(c) : Less(c.n[n].payload, c.n[q].payload) =>
                                   ~Less(c.n[q].payload, c.n[p].payload)

\* the node an erase step removes: by value, or by slot
Target(op, arg) ==
    IF op = "erase" THEN Nptr(Cur, slotOf[arg.x] * Nsize) ELSE Nptr(Cur, arg * Nsize)

\* the node at which Retrace_Insert, started at n for a child added on side
\* 'added', calls _Rotate_Insert; nullptr if it returns without rotating
RECURSIVE RotationPoint(_, _, _)
RotationPoint(h, n, added) ==
    IF n = nullptr THEN nullptr
    ELSE IF h.n[n].tilt = None
         THEN RotationPoint(h, NSafeParent(h, n), Branch(h, n))
         ELSE IF h.n[n].tilt # added THEN nullptr ELSE n

\* the nodes met from n by Nparent(), n excluded
RECURSIVE AncestorsOf(_, _)
AncestorsOf(h, n) ==
    IF n = nullptr \/ h.n[n].parent = 0 THEN {}
    ELSE {Nparent(h, n)} \cup AncestorsOf(h, Nparent(h, n))

\* the records of the arena by their offset from its start
Records(c) == [o \in {p - c.ptr_ : p \in DOMAIN c.n} |-> c.n[c.ptr_ + o]]

\* the nodes _CreateNode would take one after another: sentinel.right, then
\* each node's right
RECURSIVE FreeChainFrom(_, _, _)
FreeChainFrom(c, p, fuel) ==
    IF p = nullptr \/ p \notin DOMAIN c.n \/ fuel = 0 THEN << >>
    ELSE <<p>> \o FreeChainFrom(c, NSafeRight(c, p), fuel - 1)

FreeChain(c) ==
    IF c.len_ = 0 THEN << >>
    ELSE FreeChainFrom(c, NSafeRight(c, N0(c)), Cardinality(DOMAIN c.n) + 1)

\* the (parent, side, child) triples the links of the live nodes define
ChildLinks(c) ==
    {<<p, "left", _Ptr(p, c.n[p].left)>> : p \in {q \in Reach(c) : c.n[q].left # 0}} \cup
    {<<p, "right", _Ptr(p, c.n[p].right)>> : p \in {q \in Reach(c) : c.n[q].right # 0}}


\* -------------------------------------------------------------- properties

\* C1: after any sequence of insert, erase and erase_at, begin()..end() yields
\* exactly the elements of the reference ordered set given the same calls, in
\* the comparator's order, and size() is the reference set's size.
C1_MatchesReferenceSet ==
    ~Wild(Cur) =>
        /\ IterSeq(Cur) = SortedSeq(ref)
        /\ size(Cur) = Cardinality(ref)

\* an erase by slot that rotated, leaving at least three elements
C1_Witness ==
    /\ last.op = "erase_at" /\ last.flag /\ last.rot > 0
    /\ Cardinality(ref) >= 3
    /\ IterSeq(Cur) = SortedSeq(ref)

\* C2: the slot insert(v) returned keeps holding v, and find_slot(v) keeps
\* returning it, through inserts and erases of other values (reallocation,
\* rotations, erase swaps with v's node) until v is erased.
C2_SlotsStable ==
    ~Wild(Cur) =>
        \A e \in ref :
            /\ slotOf[e.x] # 0
            /\ at(Cur, slotOf[e.x]) = e
            /\ find_slot(Cur, e) = slotOf[e.x]

\* an erase of a two-child node just exchanged it with a node that stays
C2_Witness ==
    /\ last.op = "erase" /\ last.flag /\ last.swaps > 0
    /\ Cardinality(ref) >= 3
    /\ \A e \in ref : at(Cur, slotOf[e.x]) = e

\* C3: an insert that adds an element while erased slots wait for reuse
\* returns the most recently erased of them, and the other elements stay at
\* their slots.
C3_FreeListLIFO ==
    [][(last'.op = "insert" /\ last'.flag /\ freed # << >>) =>
          /\ last'.slot = Head(freed)
          /\ \A e \in ref : at(Cur', slotOf[e.x]) = e]_vars

\* an insert took the newest of two waiting slots while two elements stayed
C3_Witness ==
    /\ last.op = "insert" /\ last.flag
    /\ freed # << >> /\ last.slot \notin Range(freed)
    /\ last.slot < len_ \div Nsize - 1
    /\ Cardinality(ref) >= 3

C5_InsertIdempotent ==
    [][(last'.op = "insert" /\ RefHas(last'.arg.x)) =>
          /\ ~last'.flag
          /\ last'.slot = slotOf[last'.arg.x]
          /\ UNCHANGED cvars]_vars

\* an equivalent value with another second field was offered while a freed
\* slot waited; the stored element is still the first one
C5_Witness ==
    /\ last.op = "insert" /\ ~last.flag /\ last.slot # 0
    /\ at(Cur, last.slot) # last.arg
    /\ at(Cur, last.slot).x = last.arg.x
    /\ freed # << >>
    /\ Cardinality(ref) >= 2

\* C6: erase of a value that is not in the set, erase_at(0) and erase_at of a
\* slot whose node is decommissioned leave the buffer, its length, the root
\* offset and the count as they are, in the empty state too.
C6_SilentNoOpErase ==
    [][(\/ last'.op = "erase" /\ ~RefHas(last'.arg.x)
        \/ last'.op = "erase_at" /\ last'.arg = 0
        \/ last'.op = "erase_at" /\ last'.arg \in Range(freed)) =>
          UNCHANGED cvars]_vars

\* erase_at was called with a slot waiting in the free list of a set that
\* holds elements
C6_Witness ==
    /\ last.op = "erase_at" /\ ~last.flag
    /\ last.arg \in Range(freed)
    /\ Cardinality(ref) >= 2

\* C7 as stated: the source of a move construction has a null buffer, zero
\* length and capacity, root offset 0 and count 0.
C7_MovedSourceZeroed ==
    last.op = "move" =>
        /\ ptr_ = nullptr /\ len_ = 0 /\ capacity_ = 0
        /\ _Root = 0 /\ _Cnt = 0

\* C8: the copy lives at another address, has the same length, capacity,
\* root offset and count, reaches one node per element, iterates as the
\* original does and holds the same payload at every live slot.
C8_CloneByBytes ==
    other.kind = "copy" =>
        /\ ptr_ # nullptr => other.c.ptr_ # ptr_
        /\ other.c.len_ = len_ /\ other.c.capacity_ = capacity_
        /\ other.c._Root = _Root /\ other.c._Cnt = _Cnt
        /\ Cardinality(Reach(other.c)) = Cardinality(ref)
        /\ IterSeq(other.c) = IterSeq(Cur)
        /\ \A e \in ref : at(other.c, slotOf[e.x]) = e

\* a copy of a set of three or more elements with a freed slot in its buffer
C8_Witness ==
    /\ other.kind = "copy" /\ last.op = "copy"
    /\ Cardinality(ref) >= 3 /\ freed # << >>
    /\ other.c.ptr_ # ptr_
    /\ IterSeq(other.c) = SortedSeq(ref)

\* C9: insert returns a slot >= 1, find_slot returns 0 exactly for the values
\* that are not in the set, and the record at offset 0 is not reached from
\* the root.
C9_SlotZeroNeverLive ==
    /\ last.op = "insert" => last.slot >= 1
    /\ ~Wild(Cur) =>
          /\ \A v \in Values : (find_slot(Cur, v) = 0) <=> ~RefHas(v.x)
          /\ ptr_ # nullptr => N0(Cur) \notin Reach(Cur)

\* the first slot was freed and taken again, so the free list was empty twice
C9_Witness ==
    /\ last.op = "insert" /\ last.flag /\ last.slot = 1
    /\ Cardinality(ref) >= 3
    /\ \E v \in Values : find_slot(Cur, v) = 0
    /\ \E v \in Values : find_slot(Cur, v) = 1

\* C10 as stated: size() is the number of live nodes reached from the root
\* offset by left and right links, and the root offset is 0 exactly when
\* size() is 0.
C10_SizeIsReachableCount ==
    /\ size(Cur) = Cardinality({p \in Reach(Cur) : ~IsEmpty(Cur, p)})
    /\ _Root = 0 <=> size(Cur) = 0

\* C11: the traversal left subtree, node, right subtree from the root visits
\* every element and is strictly increasing under the comparator, so no two
\* live nodes hold equivalent values.
C11_InorderStrictlyIncreasing ==
    ~Wild(Cur) =>
        /\ Len(Inorder(Cur)) = Cardinality(ref)
        /\ \A i \in 1..(Len(Inorder(Cur)) - 1) : Less(Inorder(Cur)[i], Inorder(Cur)[i + 1])

\* an erase by value that rotated, leaving at least three elements in order
C11_Witness ==
    /\ last.op = "erase" /\ last.rot > 0
    /\ Len(Inorder(Cur)) >= 3
    /\ Less(Inorder(Cur)[1], Inorder(Cur)[2]) /\ Less(Inorder(Cur)[2], Inorder(Cur)[3])

\* C12: for every live node the heights of its left and right subtrees differ
\* by at most 1, after inserts and erases by value or by slot.
C12_AvlBalanced ==
    ~Wild(Cur) =>
        \A p \in Reach(Cur) :
            /\ LeftHeight(Cur, p) <= RightHeight(Cur, p) + 1
            /\ RightHeight(Cur, p) <= LeftHeight(Cur, p) + 1

\* an insert that had to rotate, and an erase by slot that had to rotate
C12_Witness ==
    /\ ~Wild(Cur) /\ _Root # 0 /\ last.rot > 0
    /\ \/ last.op = "insert" /\ Height(Cur, NSafePtr(Cur, _Root)) = 2
       \/ last.op = "erase_at" /\ Height(Cur, NSafePtr(Cur, _Root)) = 2

\* C13: the tilt of every live node is Left exactly when its left subtree is
\* taller, Right exactly when its right subtree is taller, and None (the
\* non-zero value of a balanced live node) exactly when the heights are equal;
\* the nodes exchanged by an erase are included.
C13_TiltAccurate ==
    ~Wild(Cur) =>
        \A p \in Reach(Cur) :
            Cur.n[p].tilt = IF LeftHeight(Cur, p) > RightHeight(Cur, p) THEN Left
                            ELSE IF RightHeight(Cur, p) > LeftHeight(Cur, p) THEN Right
                            ELSE None

\* an erase exchanged two nodes, and some node of the result leans
C13_Witness ==
    /\ last.op \in {"erase", "erase_at"} /\ last.swaps > 0
    /\ ~Wild(Cur)
    /\ \E p \in Reach(Cur) : Cur.n[p].tilt \in {Left, Right}

\* C14: for every live node with a child, the child's parent offset is the
\* negation of the node's link to it; the root's parent offset is 0; no node is
\* the child of two nodes (or both children of one).
C14_LinkSymmetry ==
    ~Wild(Cur) =>
        /\ \A l \in ChildLinks(Cur) :
               /\ l[3] \in DOMAIN Cur.n
               /\ Cur.n[l[3]].parent = -(Cur.n[l[1]][l[2]])
        /\ _Root # 0 => Cur.n[NSafePtr(Cur, _Root)].parent = 0
        /\ \A l, k \in ChildLinks(Cur) : l[3] = k[3] => l = k

\* an erase by slot exchanged a two-child node with its neighbour and the
\* result still has a node with two children
C14_Witness ==
    /\ last.op = "erase_at" /\ last.swaps > 0
    /\ ~Wild(Cur)
    /\ \E p \in Reach(Cur) : Cur.n[p].left # 0 /\ Cur.n[p].right # 0

\* C15: the chain from sentinel.right along the right links is finite and
\* acyclic, stays inside the arena, ends at a node whose right is 0, and every
\* node on it has tilt 0, parent 0, left 0 and an all-zero payload.
C15_FreeListWellFormed ==
    /\ Len(FreeChain(Cur)) <= Cardinality(DOMAIN Cur.n)
    /\ Cardinality(Range(FreeChain(Cur))) = Len(FreeChain(Cur))
    /\ len_ # 0 /\ Cur.n[N0(Cur)].right # 0 => FreeChain(Cur) # << >>
    /\ FreeChain(Cur) # << >> => Cur.n[FreeChain(Cur)[Len(FreeChain(Cur))]].right = 0
    /\ \A i \in 1..Len(FreeChain(Cur)) :
           /\ Cur.n[FreeChain(Cur)[i]].tilt = 0
           /\ Cur.n[FreeChain(Cur)[i]].parent = 0
           /\ Cur.n[FreeChain(Cur)[i]].left = 0
           /\ Cur.n[FreeChain(Cur)[i]].payload = ZeroPayload

\* three erased nodes wait on the chain while an element is live
C15_Witness ==
    /\ Len(FreeChain(Cur)) = 3
    /\ last.op \in {"erase", "erase_at"}
    /\ ref # {}

\* C16 as stated: the slots other than the sentinel are partitioned into live
\* nodes and free-chain nodes, hence in every reachable state
\* free-list length + size() = arena length / node size - 1.
C16_SlotPartitionAsStated ==
    /\ \A p \in DOMAIN Cur.n \ {N0(Cur)} :
           (p \in Reach(Cur)) # (p \in Range(FreeChain(Cur)))
    /\ Len(FreeChain(Cur)) + size(Cur) = len_ \div Nsize - 1

\* C16, amended: the partition holds in every reachable state; the count
\* equation holds whenever the arena holds the sentinel (length > 0), and an
\* arena of length 0 has an empty free chain.
C16_SlotPartition ==
    /\ \A p \in DOMAIN Cur.n \ {N0(Cur)} :
           (p \in Reach(Cur)) # (p \in Range(FreeChain(Cur)))
    /\ len_ > 0 => Len(FreeChain(Cur)) + size(Cur) = len_ \div Nsize - 1
    /\ len_ = 0 => FreeChain(Cur) = << >>

\* all of three inserted values have been erased: three nodes on the chain
C16_Witness ==
    /\ last.op \in {"erase", "erase_at"}
    /\ ref = {} /\ size(Cur) = 0
    /\ len_ = 4 * Nsize
    /\ Len(FreeChain(Cur)) = 3

\* C17: while the container holds no element (never used, only reserved, all
\* elements erased, or cleared) size() is 0, begin() equals end(), find gives
\* end and find_slot gives 0 for every value, erase and erase_at change
\* nothing, and an insert adds its value as the root.
C17_EmptyBoundary ==
    [][(ref = {} /\ ~Wild(Cur)) =>
          /\ size(Cur) = 0
          /\ Begin(Cur) = End
          /\ \A v \in Values : FindNode(Cur, v) = End /\ find_slot(Cur, v) = 0
          /\ last'.op \in {"erase", "erase_at"} => UNCHANGED cvars /\ ~last'.flag
          /\ last'.op = "insert" =>
                 /\ last'.flag /\ last'.slot # 0
                 /\ _Cnt' = 1 /\ _Root' = last'.slot * Nsize
                 /\ mem'[ptr_' + _Root'].payload = last'.arg
                 /\ mem'[ptr_' + _Root'].parent = 0]_vars

\* the last of three elements was erased, and the next insert became the root
\* in a reused slot
C17_Witness ==
    /\ last.op = "insert" /\ last.flag
    /\ Cardinality(ref) = 1 /\ _Cnt = 1
    /\ len_ = 4 * Nsize
    /\ _Root = last.slot * Nsize

\* C18: reserve(n) leaves a capacity of at least (n + 1) node sizes and changes
\* neither size(), the root, the content of any slot nor the arena length; it
\* changes nothing at all when the capacity already covers the target. The
\* capacity does not shrink under insert, erase, erase_at and reserve, and an
\* insert whose records fit the capacity it found does not reallocate.
C18_Reserve ==
    [][/\ last'.op = "reserve" =>
              /\ capacity_' >= (last'.arg + 1) * Nsize
              /\ _Cnt' = _Cnt /\ _Root' = _Root /\ len_' = len_
              /\ Records(Cur)' = Records(Cur)
              /\ (last'.arg + 1) * Nsize <= capacity_ => UNCHANGED cvars /\ last'.reallocs = 0
       /\ last'.op \in {"reserve", "insert", "erase", "erase_at"} => capacity_' >= capacity_
       /\ (last'.op = "insert" /\ len_' <= capacity_) =>
              last'.reallocs = 0 /\ ptr_' = ptr_ /\ capacity_' = capacity_]_vars

\* after reserve(MaxReserve) gave a capacity of exactly MaxReserve + 1 node
\* sizes, an insert filled the last reserved slot without reallocating
C18_Witness ==
    /\ last.op = "insert" /\ last.flag /\ last.reallocs = 0
    /\ capacity_ = (MaxReserve + 1) * Nsize
    /\ len_ = capacity_

\* C20: the payload destructor runs exactly once for each live element: once
\* in the erase (by value or by slot) that removes it, or once in clear() or
\* the destructor if it is still live; no other call runs it, an erase of an
\* erased slot does not, and no call on a moved-from container does.
C20_DestroyedExactlyOnce ==
    [][/\ last'.op = "erase" =>
              erase(Cur, last'.arg).dtor =
                  IF RefHas(last'.arg.x) THEN <<Nptr(Cur, slotOf[last'.arg.x] * Nsize)>> ELSE << >>
       /\ last'.op = "erase_at" =>
              erase_at(Cur, last'.arg).dtor =
                  IF LiveSlot(last'.arg) THEN <<Nptr(Cur, last'.arg * Nsize)>> ELSE << >>
       /\ last'.op = "clear" =>
              /\ Len(Clear(Cur).dtor) = Cardinality(ref)
              /\ Range(Clear(Cur).dtor) = Reach(Cur)
       /\ last'.op = "drop" =>
              /\ Len(Clear(other.c).dtor) = Len(Inorder(other.c))
              /\ Range(Clear(other.c).dtor) = Reach(other.c)
       /\ last'.op \in {"insert", "reserve", "copy", "move"} => last'.dtor = 0
       /\ last'.op = "use" => ~ub']_vars

\* C19: when malloc fails during an insert, the root offset, the element
\* count, every live node's links, tilt and payload at its offset, and the
\* free chain are what they were before the call; the value is not added.
C19_OomLeavesTreeUntouched ==
    [][(last'.op = "insert" /\ last'.oom) =>
          /\ \A p \in Reach(Cur) :
                 /\ (ptr_' + Optr(Cur, p)) \in DOMAIN mem'
                 /\ mem'[ptr_' + Optr(Cur, p)] = mem[p]
          /\ _Root' = _Root /\ _Cnt' = _Cnt
          /\ {Optr(Cur', q) : q \in Reach(Cur')} = {Optr(Cur, p) : p \in Reach(Cur)}
          /\ Len(FreeChain(Cur')) = Len(FreeChain(Cur))
          /\ \A i \in 1..Len(FreeChain(Cur)) :
                 Optr(Cur', FreeChain(Cur')[i]) = Optr(Cur, FreeChain(Cur)[i])
          /\ ~last'.flag /\ ref' = ref]_vars

\* an insert into a full arena holding three elements met a failing malloc
C19_Witness ==
    /\ last.op = "insert" /\ last.oom
    /\ Cardinality(ref) = 3 /\ _Cnt = 3
    /\ len_ = capacity_ /\ freed = << >>

\* C21 as stated: an erase of a node with two children exchanges it with its
\* in-order predecessor if its tilt is Left, and with its in-order successor
\* if its tilt is Right or Balanced.
C21_PartnerAsStated ==
    [][(last'.op \in {"erase", "erase_at"} /\ last'.swaps > 0) =>
          SwapPartner(Cur, Target(last'.op, last'.arg)) =
              IF Cur.n[Target(last'.op, last'.arg)].tilt = Left
              THEN PredecessorOf(Cur, Target(last'.op, last'.arg))
              ELSE SuccessorOf(Cur, Target(last'.op, last'.arg))]_vars

\* C21, amended: the partner is the in-order successor if the target's tilt is
\* Right, and the in-order predecessor if its tilt is Left or Balanced.
C21_PartnerByTilt ==
    [][(last'.op \in {"erase", "erase_at"} /\ last'.swaps > 0) =>
          SwapPartner(Cur, Target(last'.op, last'.arg)) =
              IF Cur.n[Target(last'.op, last'.arg)].tilt = Right
              THEN SuccessorOf(Cur, Target(last'.op, last'.arg))
              ELSE PredecessorOf(Cur, Target(last'.op, last'.arg))]_vars

\* 2 was erased from the balanced tree 2(1, 3): its predecessor 1 took its
\* place as the root
C21_Witness ==
    /\ last.op = "erase" /\ last.swaps > 0 /\ last.arg.x = 2
    /\ {e.x : e \in ref} = {1, 3}
    /\ ~Wild(Cur) /\ _Root # 0
    /\ Cur.n[Nptr(Cur, _Root)].payload.x = 1

\* C22 as stated: the exchange of a two-child target with its in-order
\* neighbour exchanges the payloads of the two nodes, and their tilts.
C22_SwapExchangesPayloads ==
    [][(last'.op \in {"erase", "erase_at"} /\ last'.swaps > 0) =>
          LET Ok(n, o, h) ==
                  /\ h.n[n].payload = Cur.n[o].payload
                  /\ h.n[o].payload = Cur.n[n].payload
                  /\ h.n[n].tilt = Cur.n[o].tilt
                  /\ h.n[o].tilt = Cur.n[n].tilt
              With(n, o) == Ok(n, o, _SwapWith(Cur, n, o))
          IN With(Target(last'.op, last'.arg),
                  SwapPartner(Cur, Target(last'.op, last'.arg)))]_vars

\* C22, amended: the exchange leaves both payloads in their records; it
\* exchanges the tilts and rewires the links so that each of the two nodes
\* gets the parent and the children the other had, every other node keeping
\* its place; after the erase the partner's record still holds its payload.
C22_SwapRewiresOnly ==
    [][(last'.op \in {"erase", "erase_at"} /\ last'.swaps > 0) =>
          LET Ex(n, o, p) == IF p = n THEN o ELSE IF p = o THEN n ELSE p
              Ok(n, o, h) ==
                  /\ \A p \in DOMAIN Cur.n : h.n[p].payload = Cur.n[p].payload
                  /\ h.n[n].tilt = Cur.n[o].tilt
                  /\ h.n[o].tilt = Cur.n[n].tilt
                  /\ \A p \in Reach(Cur) \ {n, o} : h.n[p].tilt = Cur.n[p].tilt
                  /\ \A p \in Reach(Cur) :
                         /\ NSafeLeft(h, Ex(n, o, p)) = Ex(n, o, NSafeLeft(Cur, p))
                         /\ NSafeRight(h, Ex(n, o, p)) = Ex(n, o, NSafeRight(Cur, p))
                         /\ NSafeParent(h, Ex(n, o, p)) = Ex(n, o, NSafeParent(Cur, p))
                  /\ mem'[ptr_' + Optr(Cur, o)].payload = Cur.n[o].payload
              With(n, o) == Ok(n, o, _SwapWith(Cur, n, o))
          IN With(Target(last'.op, last'.arg),
                  SwapPartner(Cur, Target(last'.op, last'.arg)))]_vars

\* 2 was erased while it had two children: 3 took its place as the root and
\* is still read at the slot it was given
C22_Witness ==
    /\ last.op = "erase" /\ last.swaps > 0 /\ last.arg.x = 2
    /\ {e.x : e \in ref} = {1, 3, 4}
    /\ ~Wild(Cur) /\ _Root # 0
    /\ Cur.n[Nptr(Cur, _Root)].payload.x = 3
    /\ at(Cur, slotOf[3]).x = 3

\* C23: with a strict weak order and slots used as insert returned them, no
\* call reaches a branch the code treats as a logic violation: the target of
\* an erase has at most one child after the exchange, Retrace_Erase is not
\* entered with None, _Rotate_Erase finds a node X on an LL, RR, LR or RL
\* case, and _Rotate_Insert is invoked on a node whose heavy child exists and
\* is itself tilted.
C23_NoLogicViolation ==
    ~last.bad

\* an erase by slot removed a node and rotated on the way up without meeting
\* such a branch
C23_Witness ==
    /\ last.op = "erase_at" /\ last.flag /\ last.rot > 0
    /\ ~last.bad
    /\ Cardinality(ref) = 3

\* C24: an insert rotates at most once (single or double), exactly when the
\* walk up meets a node already leaning to the side that grew, and stops
\* there: the subtree at that place is as high after the insert as it was
\* before, and no node above it changes its tilt.
C24_OneRotationPerInsert ==
    [][(last'.op = "insert" /\ last'.flag /\ _Root # 0) =>
          LET Moved(p) == ptr_' + Optr(Cur, p)
              Place(Z) == IF Cur.n[Z].parent = 0 THEN NSafePtr(Cur', _Root')
                          ELSE IF Branch(Cur, Z) = Left
                               THEN NSafeLeft(Cur', Moved(Nparent(Cur, Z)))
                               ELSE NSafeRight(Cur', Moved(Nparent(Cur, Z)))
              Ok(Z) == /\ last'.rot <= 1
                       /\ (last'.rot = 1) <=> (Z # nullptr)
                       /\ Z # nullptr =>
                              /\ \A a \in AncestorsOf(Cur, Z) :
                                     mem'[Moved(a)].tilt = mem[a].tilt
                              /\ Height(Cur', Place(Z)) = Height(Cur, Z)
              At(ip) == Ok(RotationPoint(Cur, ip[1], ip[2]))
          IN At(_InsertionPointFor(Cur, Nptr(Cur, _Root), last'.arg))]_vars

\* an insert rotated once in a tree of five elements whose root still leans:
\* the rotation was below the root
C24_Witness ==
    /\ last.op = "insert" /\ last.flag /\ last.rot = 1
    /\ Cardinality(ref) = 5
    /\ Height(Cur, Nptr(Cur, _Root)) = 3
    /\ Cur.n[Nptr(Cur, _Root)].tilt # None

\* C25: in an erase rotation whose heavy child Y is balanced, the case taken
\* is LL or RR, Y gets the tilt opposite to Z's, Z and X keep their tilts, the
\* subtree keeps its height and the retrace stops; in every other erase
\* rotation the subtree gets lower by one and the retrace goes on from the new
\* root of the subtree.
C25_EraseRotationCases ==
    \A i \in 1..Len(last.erot) :
        /\ last.erot[i].ybal =>
               /\ last.erot[i].sw \in {LeftLeft, RightRight}
               /\ last.erot[i].yt[2] = Opp(last.erot[i].zt[1])
               /\ last.erot[i].zt[2] = last.erot[i].zt[1]
               /\ last.erot[i].xt[2] = last.erot[i].xt[1]
               /\ last.erot[i].after = last.erot[i].before
               /\ last.erot[i].stop
        /\ ~last.erot[i].ybal =>
               /\ last.erot[i].after = last.erot[i].before - 1
               /\ ~last.erot[i].stop
               /\ last.erot[i].top

\* an erase rotated at a node whose heavy child was balanced
C25_Witness ==
    /\ last.op = "erase" /\ last.flag
    /\ Len(last.erot) = 1
    /\ last.erot[1].ybal /\ last.erot[1].stop
    /\ Cardinality(ref) >= 4

\* C26: after an insert that adds a child, the parent link of the node that
\* was the root is 0 or leads to a node whose own parent link is 0, and the
\* stored root offset is the old one plus that link: it designates the node
\* whose parent link is 0.
C26_RootMovesOneStep ==
    [][(last'.op = "insert" /\ last'.flag /\ _Root # 0) =>
          LET Ok(old) ==
                  /\ \/ mem'[old].parent = 0
                     \/ mem'[Nparent(Cur', old)].parent = 0
                  /\ _Root' = _Root + mem'[old].parent
                  /\ mem'[Nptr(Cur', _Root')].parent = 0
          IN Ok(ptr_' + _Root)]_vars

\* 2 was inserted between 1 and 3 and a double rotation made it the root,
\* one step above the node that was the root
C26_Witness ==
    /\ last.op = "insert" /\ last.flag /\ last.rot = 1 /\ last.arg.x = 2
    /\ {e.x : e \in ref} = {1, 3, 2}
    /\ Cur.n[Nptr(Cur, _Root)].payload.x = 2
    /\ Cur.n[Nptr(Cur, _Root)].parent = 0

\* C27: three distinct values inserted into an empty container, in any order,
\* give a root holding the median with the smallest as its left child and the
\* largest as its right child, both leaves, and all three tilts balanced;
\* inserting the smallest last after largest, median takes the LL case at the
\* root and the median becomes the root.
C27_ThreeValues ==
    /\ [](Cardinality(ref) = 3 =>
            LET Is(r, lo, mid, hi) ==
                    /\ Cur.n[r].payload = mid
                    /\ Cur.n[r].parent = 0
                    /\ Cur.n[r].left # 0 /\ Cur.n[r].right # 0
                    /\ Cur.n[Nleft(Cur, r)].payload = lo
                    /\ Cur.n[Nright(Cur, r)].payload = hi
                    /\ \A p \in {Nleft(Cur, r), Nright(Cur, r)} :
                           Cur.n[p].left = 0 /\ Cur.n[p].right = 0
                    /\ \A p \in {r, Nleft(Cur, r), Nright(Cur, r)} : Cur.n[p].tilt = None
                    /\ size(Cur) = 3
            IN \E lo, mid, hi \in ref :
                   /\ Less(lo, mid) /\ Less(mid, hi)
                   /\ Is(Nptr(Cur, _Root), lo, mid, hi))
    /\ [][(/\ Cardinality(ref) = 2 /\ last'.op = "insert" /\ last'.flag
           /\ \E hi, mid \in ref :
                  /\ slotOf[hi.x] = 1 /\ slotOf[mid.x] = 2
                  /\ Less(last'.arg, mid) /\ Less(mid, hi)) =>
              LET Case(Z, ip) ==
                      /\ RotationPoint(Cur, ip[1], ip[2]) = Z
                      /\ Nheavy(Cur, Z) = ip[1]
                      /\ Dir2Of(Cur.n[Z].tilt, ip[2]) = LeftLeft
                      /\ last'.rot = 1
                      /\ Less(last'.arg, mem'[Nptr(Cur', _Root')].payload)
                      /\ Less(mem'[Nptr(Cur', _Root')].payload, mem[Z].payload)
              IN Case(Nptr(Cur, _Root),
                      _InsertionPointFor(Cur, Nptr(Cur, _Root), last'.arg))]_vars

\* 3, 2, 1 were inserted in this order: one rotation, and 2 is the root
C27_Witness ==
    /\ {e.x : e \in ref} = {3, 2, 1}
    /\ slotOf[3] = 1 /\ slotOf[2] = 2 /\ slotOf[1] = 3
    /\ last.op = "insert" /\ last.arg.x = 1 /\ last.rot = 1
    /\ Cur.n[Nptr(Cur, _Root)].payload.x = 2

\* C28: 1, 2, 3, 4, 5, 6, 7 inserted in this order into an empty container
\* return the slots 1..7 in this order and give the in-order sequence 1..7,
\* the root 4, depth 3 and every tilt balanced (a perfect tree).
C28_AscendingSeven ==
    (freed = << >> /\ last.op = "insert") =>
        /\ last.flag /\ last.slot = last.arg.x
        /\ \A k \in 1..Cardinality(ref) : slotOf[k] = k
        /\ Cardinality(ref) = 7 =>
               /\ [i \in 1..Len(Inorder(Cur)) |-> Inorder(Cur)[i].x] = <<1, 2, 3, 4, 5, 6, 7>>
               /\ Cur.n[Nptr(Cur, _Root)].payload.x = 4
               /\ Height(Cur, Nptr(Cur, _Root)) = 3
               /\ \A p \in Reach(Cur) :
                      /\ Cur.n[p].tilt = None
                      /\ (Cur.n[p].left = 0) <=> (Cur.n[p].right = 0)
               /\ size(Cur) = 7

\* the seventh ascending insert has returned
C28_Witness ==
    /\ freed = << >> /\ last.op = "insert" /\ last.arg.x = 7 /\ last.slot = 7
    /\ Cardinality(ref) = 7 /\ last.rot = 1

\* C29: the walk from begin() by inorder_next reaches end() after exactly
\* size() advances, and the payloads it visits are those of the recursive
\* in-order traversal, in the same order.
C29_IteratorWalk ==
    ~Wild(Cur) =>
        /\ Len(IterSeq(Cur)) = size(Cur)
        /\ IterSeq(Cur) = Inorder(Cur)
        /\ (size(Cur) = 0) <=> (Begin(Cur) = End)

\* after an erase five elements are left, and the walk has to climb two
\* parent links from a node without a right subtree
C29_Witness ==
    /\ last.op = "erase" /\ size(Cur) = 5 /\ Len(IterSeq(Cur)) = 5
    /\ \E p \in Reach(Cur) :
           /\ Cur.n[p].right = 0
           /\ Branch(Cur, p) = Right
           /\ Branch(Cur, Nparent(Cur, p)) = Left
           /\ InorderNextOf(Cur, p) = Nparent(Cur, Nparent(Cur, p))

====
